---- MODULE Spec2Model ----
(***************************************************************************)
(* A model of vtfs, an in-memory filesystem kernel module: the tree of     *)
(* vtfs_node objects (vtfs_inode.c), the growable byte buffer of a file    *)
(* (vtfs_file.c), the directory cursor and the two release paths           *)
(* (vtfs_dir.c), together with the part of the host (inodes, dentries)     *)
(* that decides which node each handler is called with.                    *)
(*                                                                         *)
(* Sizes are scaled: size_t is a few bits wide, a page holds PAGE_SIZE     *)
(* bytes, and an allocation larger than MaxAlloc bytes always fails.       *)
(***************************************************************************)
EXTENDS Integers, Sequences, FiniteSets, TLC

\* ------------------------------------------------------------------ bounds
MaxNodes == 4      \* vtfs_node allocations in one mount lifetime (root included)
MaxInodes == 3     \* host inodes alive at one time
PAGE_SIZE == 1     \* bytes in a page (scaled)
SIZE_MAX == 15     \* largest size_t (scaled)
MaxAlloc == 4      \* largest buffer krealloc can deliver
MaxLen == 2        \* longest user buffer whose bytes are modelled
NlinkWrap == 7     \* value an unsigned link count wraps to below zero (scaled)
UINT_RANGE == 16   \* number of values of an unsigned int (scaled)
NThreads == 2      \* threads running file operations at the same time

\* ---------------------------------------------------------- program constants
VTFS_FILE_NAME_LEN == 255

NULL == 0

Min(a, b) == IF a < b THEN a ELSE b
Max(a, b) == IF a > b THEN a ELSE b

NodeIds == 1..MaxNodes
InodeIds == 1..MaxInodes
ROOT_INODE == 1

Names == { <<"a">>, <<"b">> }
RootName == <<"/">>

\* strscpy(dst, src, size): at most size - 1 characters of src are stored.
strscpy(src, size) == SubSeq(src, 1, Min(Len(src), size - 1))

\* The bytes of a user buffer of length len filled with pattern p.
UserBuf(len, p) == [k \in 1..len |-> 1 + ((p + k) % 2)]

VARIABLES
  node,       \* the vtfs_node objects, by allocation index
  nalloc,     \* vtfs_node allocations made so far
  nfree,      \* per vtfs_node: how many times kfree(node) ran on it
  bfree,      \* per vtfs_node: how many times kfree ran on its current buffer
  next_ino,   \* vtfs_fs.next_ino
  issued,     \* the identifiers handed out by next_ino++, in order
  mounted,    \* between vtfs_fill_super and vtfs_put_super
  inode,      \* the host's struct inode objects
  dcache,     \* the host's dentries: [pd, name, ino], ino = NULL when negative
  res,        \* what the last handler call returned
  ctx,        \* the directory listing in progress (struct dir_context)
  lock,       \* per vtfs_node: the thread that holds node->lock, or 0
  thr,        \* per thread: the file operation it is running
  base        \* the nodes as they were when the running operations began

vars == <<node, nalloc, nfree, bfree, next_ino, issued, mounted, inode, dcache,
          res, ctx, lock, thr, base>>

concVars == <<lock, thr, base>>

treeVars == <<nalloc, nfree, bfree, next_ino, issued, mounted, dcache>>

\* --------------------------------------------------------------- the objects
NoNode ==
  [st |-> "none", name |-> <<>>, ino |-> 0, is_dir |-> FALSE, parent |-> NULL,
   first_child |-> NULL, next_sibling |-> NULL, link_target |-> NULL,
   data |-> <<>>, size |-> 0, capacity |-> 0]

\* vtfs_alloc_node: a zeroed node with its name, kind and empty buffer.
vtfs_alloc_node(name, is_dir) ==
  [NoNode EXCEPT !.st = "live",
                 !.name = strscpy(name, VTFS_FILE_NAME_LEN),
                 !.is_dir = is_dir,
                 !.data = <<>>, !.size = 0, !.capacity = 0]

NoInode ==
  [live |-> FALSE, i_private |-> NULL, i_nlink |-> 0, i_ino |-> 0, i_size |-> 0,
   i_dir |-> FALSE]

\* vtfs_get_inode: a new host inode bound to the node; a directory starts with
\* two links, a file with one.
vtfs_get_inode(n, nd) ==
  [live |-> TRUE, i_private |-> n, i_nlink |-> IF nd.is_dir THEN 2 ELSE 1,
   i_ino |-> nd.ino, i_size |-> 0, i_dir |-> nd.is_dir]

\* A file operation that works on the node of the name it came by.
vtfs_data_node_self(n) == n

\* vtfs_data_node: the node whose buffer a file operation works on.
vtfs_data_node(n) ==
  IF node[n].link_target # NULL THEN node[n].link_target ELSE n

NoOp == [op |-> "none"]
NoCtx == [open |-> FALSE]

\* The threads that run file operations at the same time, none of them started.
Threads == 1..NThreads
Idle == [pc |-> "idle"]
NoThreads ==
  /\ lock = [n \in NodeIds |-> 0]
  /\ thr = [t \in Threads |-> Idle]
  /\ base = node

\* ------------------------------------------------------------ the mount
\* vtfs_fill_super: the registry's counter starts at 1 and the root takes the
\* first identifier.
RootNode == [vtfs_alloc_node(RootName, TRUE) EXCEPT !.ino = 1]

Init ==
  /\ node = [n \in NodeIds |-> IF n = 1 THEN RootNode ELSE NoNode]
  /\ nalloc = 1
  /\ nfree = [n \in NodeIds |-> 0]
  /\ bfree = [n \in NodeIds |-> 0]
  /\ next_ino = 2
  /\ issued = <<1>>
  /\ mounted = TRUE
  /\ inode = [i \in InodeIds |->
                IF i = ROOT_INODE
                  THEN [live |-> TRUE, i_private |-> 1, i_nlink |-> 2, i_ino |-> 1,
                        i_size |-> 0, i_dir |-> TRUE]
                  ELSE NoInode]
  /\ dcache = {}
  /\ res = NoOp
  /\ ctx = NoCtx
  /\ NoThreads

\* ---------------------------------------------------------- the buffer engine
Uninit == 0 - 1    \* a byte of freshly allocated memory nobody has written

\* krealloc(data, new_capacity): the old bytes, then uninitialised ones.
krealloc(data, new_capacity) ==
  [k \in 1..new_capacity |-> IF k <= Len(data) THEN data[k] ELSE Uninit]

\* A memset that starts one byte late.
memset0_late(data, from, count) ==
  [k \in 1..Len(data) |->
     IF from + 1 < k /\ k <= from + count THEN 0 ELSE data[k]]

\* memset(data + from, 0, count)
memset0(data, from, count) ==
  [k \in 1..Len(data) |-> IF from < k /\ k <= from + count THEN 0 ELSE data[k]]

\* copy_from_user(data + pos, buf, len) when only the first `ok` bytes of buf can
\* be read: those are copied and the rest of the destination is zeroed.
copy_from_user(data, pos, len, p, ok) ==
  [k \in 1..Len(data) |->
     IF pos < k /\ k <= pos + ok THEN UserBuf(len, p)[k - pos]
     ELSE IF pos + ok < k /\ k <= pos + len THEN 0
     ELSE data[k]]

\* The growth loop of vtfs_write: start from a page (or the present capacity)
\* and double until end_pos fits; -1 when doubling would pass SIZE_MAX.
RECURSIVE GrowLoop(_, _)
GrowLoop(new_capacity, end_pos) ==
  IF new_capacity >= end_pos THEN new_capacity
  ELSE IF new_capacity > SIZE_MAX \div 2 THEN 0 - 1
  ELSE GrowLoop(new_capacity * 2, end_pos)

\* A buffer grown to just what the write needs.
NewCapacity_exact(capacity, end_pos) == end_pos

NewCapacity(capacity, end_pos) ==
  GrowLoop(IF capacity = 0 THEN PAGE_SIZE ELSE capacity, end_pos)

\* The buffer after the growth step: krealloc, then the new region zeroed.
GrowBuffer(nd, new_capacity) ==
  IF new_capacity > nd.capacity
    THEN memset0(krealloc(nd.data, new_capacity), nd.capacity,
                 new_capacity - nd.capacity)
    ELSE krealloc(nd.data, new_capacity)

\* The gap between the old size and a write position past it is zeroed.
HoleFill(data, size, pos) ==
  IF pos > size THEN memset0(data, size, pos - size) ELSE data

WriteFail(nd, e, ppos) ==
  [err |-> e, ret |-> 0, data |-> nd.data, size |-> nd.size,
   capacity |-> nd.capacity, sync |-> FALSE, newpos |-> ppos, full |-> FALSE]

\* A count taken from the first copy_from_user call instead of the second.
Written_first(len, c1, c2) == c1

\* written = len - not_copied, not_copied being what the second copy_from_user
\* call leaves uncopied.
Written(len, c1, c2) == len - (len - c2)

\* vtfs_write from the position check on: what it returns and what it leaves in
\* the data node.  memok: krealloc finds memory; c1, c2: how many bytes the
\* first and the second copy_from_user call manage to read.
WriteResult(nd, ppos, pos, len, p, memok, c1, c2) ==
  IF pos < 0 THEN WriteFail(nd, "EINVAL", ppos)
  ELSE IF len = 0 THEN [WriteFail(nd, "OK", ppos) EXCEPT !.full = TRUE]
  ELSE IF pos > SIZE_MAX THEN WriteFail(nd, "EFBIG", ppos)
  ELSE IF len > SIZE_MAX - pos THEN WriteFail(nd, "EFBIG", ppos)
  ELSE
    LET end_pos == pos + len
        grow == end_pos > nd.capacity
        new_capacity == IF grow THEN NewCapacity(nd.capacity, end_pos)
                        ELSE nd.capacity
    IN
    IF grow /\ new_capacity < 0 THEN WriteFail(nd, "EFBIG", ppos)
    ELSE IF grow /\ (~memok \/ new_capacity > MaxAlloc)
      THEN WriteFail(nd, "ENOMEM", ppos)
    ELSE
      LET d1 == IF grow THEN GrowBuffer(nd, new_capacity) ELSE nd.data
          d2 == HoleFill(d1, nd.size, pos)
          d3 == copy_from_user(d2, pos, len, p, c1)
          d4 == copy_from_user(d3, pos, len, p, c2)
          written == Written(len, c1, c2)
      IN
      IF c1 # len /\ c2 # len
        THEN [err |-> IF written # 0 THEN "OK" ELSE "EFAULT",
              ret |-> written, data |-> d4,
              size |-> IF pos + written > nd.size THEN pos + written ELSE nd.size,
              capacity |-> new_capacity, sync |-> TRUE,
              newpos |-> pos + written, full |-> FALSE]
        ELSE [err |-> "OK", ret |-> len,
              data |-> IF c1 = len THEN d3 ELSE d4,
              size |-> IF end_pos > nd.size THEN end_pos ELSE nd.size,
              capacity |-> new_capacity, sync |-> TRUE,
              newpos |-> pos + len, full |-> TRUE]

\* The file operations are reached through a positive dentry whose inode is a
\* regular file bound to a node that has not been released.
FileDentry(d) ==
  /\ d \in dcache
  /\ d.ino # NULL
  /\ inode[d.ino].live
  /\ ~inode[d.ino].i_dir
  /\ inode[d.ino].i_private # NULL

DataNodeOf(d) == vtfs_data_node(inode[d.ino].i_private)

Usable(d) ==
  /\ FileDentry(d)
  /\ node[inode[d.ino].i_private].st = "live"
  /\ node[DataNodeOf(d)].st = "live"

vtfs_write(d, append, ppos, len, p, memok, c1, c2) ==
  /\ mounted
  /\ Usable(d)
  /\ LET i == d.ino
         n == DataNodeOf(d)
         nd == node[n]
         pos == IF append THEN nd.size ELSE ppos
     IN \E r \in {WriteResult(nd, ppos, pos, len, p, memok, c1, c2)} :
          /\ node' = [node EXCEPT ![n] = [nd EXCEPT !.data = r.data,
                                                    !.size = r.size,
                                                    !.capacity = r.capacity]]
          /\ inode' = [inode EXCEPT ![i].i_size = IF r.sync THEN r.size ELSE @]
          /\ res' = [op |-> "write", via |-> d, n |-> n, pos |-> pos,
                     len |-> len,
                     bytes |-> IF len <= MaxLen THEN UserBuf(len, p) ELSE <<>>,
                     err |-> r.err, ret |-> r.ret, full |-> r.full,
                     newpos |-> r.newpos, osize |-> nd.size]
  /\ UNCHANGED <<treeVars, ctx, concVars>>

\* A read that takes the bytes available to be one fewer than they are.
ReadResult_short(nd, pos, len, uok) ==
  IF pos < 0 THEN [err |-> "EINVAL", ret |-> 0, out |-> <<>>, newpos |-> pos]
  ELSE IF nd.data = <<>> \/ pos >= nd.size
    THEN [err |-> "OK", ret |-> 0, out |-> <<>>, newpos |-> pos]
  ELSE
    LET to_copy == Min(nd.size - pos - 1, len)
    IN IF to_copy = 0 \/ uok < to_copy
         THEN [err |-> IF to_copy = 0 THEN "OK" ELSE "EFAULT", ret |-> 0,
               out |-> <<>>, newpos |-> pos]
       ELSE [err |-> "OK", ret |-> to_copy,
             out |-> SubSeq(nd.data, pos + 1, pos + to_copy),
             newpos |-> pos + to_copy]

\* vtfs_read; uok: how many bytes the user's buffer accepts before faulting.
ReadResult(nd, pos, len, uok) ==
  IF pos < 0 THEN [err |-> "EINVAL", ret |-> 0, out |-> <<>>, newpos |-> pos]
  ELSE IF nd.data = <<>> \/ pos >= nd.size
    THEN [err |-> "OK", ret |-> 0, out |-> <<>>, newpos |-> pos]
  ELSE
    LET available == nd.size - pos
        to_copy == Min(available, len)
    IN IF to_copy = 0
         THEN [err |-> "OK", ret |-> 0, out |-> <<>>, newpos |-> pos]
       ELSE IF uok < to_copy
         THEN [err |-> "EFAULT", ret |-> 0,
               out |-> SubSeq(nd.data, pos + 1, pos + uok), newpos |-> pos]
       ELSE [err |-> "OK", ret |-> to_copy,
             out |-> SubSeq(nd.data, pos + 1, pos + to_copy),
             newpos |-> pos + to_copy]

\* How a read relates to the call before it: "roundtrip" right after a fully
\* copied write to the same node at the same position and length, "gap" inside
\* the hole such a write left, "trunc" while nothing but reads followed a
\* truncate of the node.  osz is the node's size before that write or truncate.
FullWrite(r) == r.op = "write" /\ r.err = "OK" /\ r.full
HoleWrite(r) == FullWrite(r) /\ r.len > 0 /\ r.pos > r.osize

ReadKind(n, pos, len) ==
  IF FullWrite(res) /\ res.n = n /\ res.pos = pos /\ res.len = len
    THEN "roundtrip"
  ELSE IF HoleWrite(res) /\ res.n = n /\ res.osize <= pos /\ pos < res.pos
          /\ pos + len <= res.pos
    THEN "gap"
  ELSE IF \/ res.op = "trunc" /\ res.n = n
          \/ res.op = "read" /\ res.n = n /\ res.kind = "trunc"
    THEN "trunc"
  ELSE "plain"

vtfs_read(d, ppos, len, uok) ==
  /\ mounted
  /\ Usable(d)
  /\ LET n == DataNodeOf(d)
     IN \E r \in {ReadResult(node[n], ppos, len, uok)} :
        \E k \in {ReadKind(n, ppos, len)} :
          res' = [op |-> "read", via |-> d, n |-> n, pos |-> ppos, len |-> len,
                  err |-> r.err, ret |-> r.ret, out |-> r.out,
                  newpos |-> r.newpos, kind |-> k,
                  osz |-> IF k = "gap" \/ (k = "trunc" /\ res.op = "trunc")
                            THEN res.osize
                          ELSE IF k = "trunc" THEN res.osz ELSE 0]
  /\ UNCHANGED <<node, inode, treeVars, ctx, concVars>>

\* A truncate that releases the buffer and forgets to reset the size.
Truncated_keepsize(nd) == [nd EXCEPT !.data = <<>>, !.capacity = 0]

\* The data node after open with O_TRUNC: buffer released, size and capacity 0.
Truncated(nd) == [nd EXCEPT !.data = <<>>, !.size = 0, !.capacity = 0]

vtfs_open(d, trunc) ==
  /\ mounted
  /\ Usable(d)
  /\ LET i == d.ino
         n == DataNodeOf(d)
         rec == [op |-> IF trunc THEN "trunc" ELSE "open", via |-> d, n |-> n,
                 err |-> "OK", ret |-> 0, osize |-> node[n].size]
     IN /\ node' = IF trunc THEN [node EXCEPT ![n] = Truncated(@)] ELSE node
        /\ inode' = IF trunc THEN [inode EXCEPT ![i].i_size = 0] ELSE inode
        /\ res' = rec
  /\ UNCHANGED <<treeVars, ctx, concVars>>

\* ------------------------------------------------- the buffer engine alone
\* One file "a" under the root, as vtfs_create leaves it.
FileA ==
  [vtfs_alloc_node(<<"a">>, FALSE) EXCEPT !.ino = 2, !.parent = 1]

InitBuf ==
  /\ node = [n \in NodeIds |->
               IF n = 1 THEN [RootNode EXCEPT !.first_child = 2]
               ELSE IF n = 2 THEN FileA ELSE NoNode]
  /\ nalloc = 2
  /\ nfree = [n \in NodeIds |-> 0]
  /\ bfree = [n \in NodeIds |-> 0]
  /\ next_ino = 3
  /\ issued = <<1, 2>>
  /\ mounted = TRUE
  /\ inode = [i \in InodeIds |->
                IF i = ROOT_INODE
                  THEN [live |-> TRUE, i_private |-> 1, i_nlink |-> 2, i_ino |-> 1,
                        i_size |-> 0, i_dir |-> TRUE]
                ELSE IF i = 2
                  THEN [live |-> TRUE, i_private |-> 2, i_nlink |-> 1, i_ino |-> 2,
                        i_size |-> 0, i_dir |-> FALSE]
                ELSE NoInode]
  /\ dcache = {[pd |-> ROOT_INODE, name |-> <<"a">>, ino |-> 2]}
  /\ res = NoOp
  /\ ctx = NoCtx
  /\ NoThreads

\* The inputs of the buffer engine.  A write that gets as far as the copy is
\* given every outcome of krealloc and of the two copy_from_user calls; the
\* positions of WriteBad are the ones the range checks and the growth loop
\* refuse.
WritePos == 0..(MaxAlloc - 1)
WriteBad == {0 - 1, SIZE_MAX \div 2 + 1, SIZE_MAX, SIZE_MAX + 1}
WriteLen == 1..MaxLen
ReadPos == (0 - 1)..(MaxAlloc - 1)
ReadLen == 0..(MaxLen + 1)
Patterns == {0, 1}

BufWrite ==
  \E d \in dcache, append \in BOOLEAN, ppos \in WritePos, len \in WriteLen,
     p \in Patterns :
    /\ append => ppos = 0
    /\ \/ vtfs_write(d, append, ppos, len, p, FALSE, len, len)
       \/ \E c1 \in 0..len, c2 \in 0..len :
            /\ c1 = len => c2 = len
            /\ vtfs_write(d, append, ppos, len, p, TRUE, c1, c2)

BufWriteBad ==
  \E d \in dcache, ppos \in WriteBad \cup {0}, len \in {0, 1} :
    /\ ppos = 0 => len = 0
    /\ vtfs_write(d, FALSE, ppos, len, 0, TRUE, len, len)

BufRead ==
  \E d \in dcache, ppos \in ReadPos, len \in ReadLen :
    \E uok \in 0..len : vtfs_read(d, ppos, len, uok)

BufOpen == \E d \in dcache, trunc \in BOOLEAN : vtfs_open(d, trunc)

NextBuf == BufWrite \/ BufWriteBad \/ BufRead \/ BufOpen

SpecBuf == InitBuf /\ [][NextBuf]_vars

\* ------------------------------------------------------------------ the tree
\* The sibling chain that starts at node c, following next_sibling.
RECURSIVE Chain(_, _)
Chain(c, fuel) ==
  IF c = NULL \/ fuel = 0 THEN <<>>
  ELSE <<c>> \o Chain(node[c].next_sibling, fuel - 1)

\* dir->first_child and its siblings, in list order.
Children(p) == Chain(node[p].first_child, MaxNodes)

Range(q) == {q[k] : k \in 1..Len(q)}

\* The scan "for (cur = parent->first_child; cur; cur = cur->next_sibling)
\* if (strcmp(cur->name, name) == 0)": the first child with that name, or NULL.
RECURSIVE FirstNamed(_, _)
FirstNamed(q, name) ==
  IF q = <<>> THEN NULL
  ELSE IF node[Head(q)].name = name THEN Head(q)
  ELSE FirstNamed(Tail(q), name)

\* A scan that looks at the first child only.
LookupChild_first(p, name) ==
  IF node[p].first_child # NULL /\ node[node[p].first_child].name = name
    THEN node[p].first_child ELSE NULL

LookupChild(p, name) == FirstNamed(Children(p), name)

\* A detach that clears the node's links and leaves it in the parent's chain.
Detach_chained(p, c) ==
  [node EXCEPT ![c].parent = NULL]

\* The detach of vtfs_unlink and vtfs_rmdir: the scan by identity that takes
\* node c out of parent p's chain and clears its parent and sibling links.
\* The node array is returned unchanged when c is not in the chain.
Detach(p, c) ==
  LET q == Children(p)
      at == {k \in 1..Len(q) : q[k] = c}
  IN IF at = {} THEN node
     ELSE LET k == CHOOSE x \in at : TRUE
              unchained ==
                IF k = 1 THEN [node EXCEPT ![p].first_child = node[c].next_sibling]
                ELSE [node EXCEPT ![q[k - 1]].next_sibling = node[c].next_sibling]
          IN [unchained EXCEPT ![c].parent = NULL, ![c].next_sibling = NULL]

\* An insertion that chains the node and leaves its parent field unset.
InsertHead_orphan(nodes, p, k, nd) ==
  [nodes EXCEPT ![k] = [nd EXCEPT !.next_sibling = nodes[p].first_child],
                ![p].first_child = k]

\* The insertion at the head of the parent's chain done by create, mkdir, link.
InsertHead(nodes, p, k, nd) ==
  [nodes EXCEPT ![k] = [nd EXCEPT !.parent = p,
                                  !.next_sibling = nodes[p].first_child],
                ![p].first_child = k]

\* ---------------------------------------------------------------- the host
\* What the host hands to the handlers.  A directory inode is used as a parent
\* only while a positive dentry (or the root) leads to it; a name is created only
\* through a negative dentry: one left behind by a successful unlink or rmdir,
\* or one a lookup that found nothing has just made.
Positive(d) == d \in dcache /\ d.ino # NULL
DentriesOf(i) == {d \in dcache : d.ino = i}
ChildDentries(i) == {d \in dcache : d.pd = i}

AllLive(S) == \A n \in S : node[n].st = "live"

DirUsable(pd) ==
  /\ inode[pd].live
  /\ inode[pd].i_dir
  /\ inode[pd].i_private # NULL
  /\ pd = ROOT_INODE \/ DentriesOf(pd) # {}

\* The handler reads the parent's node and walks its chain: all of it must be
\* memory that has not been released.
DirSafe(pd) ==
  /\ node[inode[pd].i_private].st = "live"
  /\ AllLive(Range(Children(inode[pd].i_private)))

Negative(pd, name) ==
  /\ \A d \in dcache : ~(d.pd = pd /\ d.name = name /\ d.ino # NULL)
  /\ \/ [pd |-> pd, name |-> name, ino |-> NULL] \in dcache
     \/ LookupChild(inode[pd].i_private, name) = NULL

FreeInodes == {i \in InodeIds : ~inode[i].live}
NewInode == CHOOSE i \in FreeInodes : \A j \in FreeInodes : i <= j

Instantiate(pd, name, i) ==
  (dcache \ {[pd |-> pd, name |-> name, ino |-> NULL]})
    \cup {[pd |-> pd, name |-> name, ino |-> i]}

TreeRes(op, err, pd, name, n) ==
  [op |-> op, err |-> err, dir |-> inode[pd].i_private, name |-> name, n |-> n]

\* A counter that hands out the same identifier again.
NextIno_stuck(n) == n

\* "fs->next_ino++": the counter after it has issued identifier n.
NextIno(n) == n + 1

\* vtfs_lookup when the name is found: a new inode for the child, and a dentry.
vtfs_lookup(pd, name, iok) ==
  /\ mounted
  /\ DirUsable(pd) /\ DirSafe(pd)
  /\ \A d \in dcache : ~(d.pd = pd /\ d.name = name)
  /\ LET parent == inode[pd].i_private
         child == LookupChild(parent, name)
     IN /\ child # NULL
        /\ IF iok /\ FreeInodes # {}
             THEN /\ inode' = [inode EXCEPT ![NewInode] =
                                     vtfs_get_inode(child, node[child])]
                  /\ dcache' = Instantiate(pd, name, NewInode)
                  /\ res' = TreeRes("lookup", "OK", pd, name, child)
             ELSE /\ res' = TreeRes("lookup", "ENOMEM", pd, name, child)
                  /\ UNCHANGED <<inode, dcache>>
  /\ UNCHANGED <<node, nalloc, nfree, bfree, next_ino, issued, mounted, ctx, concVars>>

\* vtfs_create.  mem: "nonode" when vtfs_alloc_node finds no memory, "noinode"
\* when vtfs_get_inode does, "ok" otherwise.
vtfs_create(pd, name, mem) ==
  /\ mounted
  /\ DirUsable(pd) /\ DirSafe(pd)
  /\ Negative(pd, name)
  /\ LET parent_node == inode[pd].i_private
         k == nalloc + 1
     IN IF mem = "nonode" \/ nalloc >= MaxNodes
          THEN /\ res' = TreeRes("create", "ENOMEM", pd, name, NULL)
               /\ UNCHANGED <<node, nalloc, nfree, next_ino, issued, inode, dcache>>
          ELSE
            LET nd == [vtfs_alloc_node(name, FALSE) EXCEPT !.ino = next_ino]
                linked == InsertHead(node, parent_node, k, nd)
            IN /\ nalloc' = k
               /\ next_ino' = NextIno(next_ino)
               /\ issued' = Append(issued, next_ino)
               /\ IF mem = "noinode" \/ FreeInodes = {}
                    THEN /\ node' = [linked EXCEPT
                                       ![parent_node].first_child =
                                          linked[k].next_sibling,
                                       ![k].st = "freed"]
                         /\ nfree' = [nfree EXCEPT ![k] = @ + 1]
                         /\ res' = TreeRes("create", "ENOMEM", pd, name, k)
                         /\ UNCHANGED <<inode, dcache>>
                    ELSE /\ node' = linked
                         /\ inode' = [inode EXCEPT ![NewInode] =
                                        vtfs_get_inode(k, nd)]
                         /\ dcache' = Instantiate(pd, name, NewInode)
                         /\ res' = TreeRes("create", "OK", pd, name, k)
                         /\ UNCHANGED nfree
  /\ UNCHANGED <<bfree, mounted, ctx, concVars>>

\* vtfs_mkdir: the name scan comes first; on success the parent inode gains a
\* link.
vtfs_mkdir(pd, name, mem) ==
  /\ mounted
  /\ DirUsable(pd) /\ DirSafe(pd)
  /\ Negative(pd, name)
  /\ LET parent_node == inode[pd].i_private
         k == nalloc + 1
     IN IF LookupChild(parent_node, name) # NULL
          THEN /\ res' = TreeRes("mkdir", "EEXIST", pd, name, NULL)
               /\ UNCHANGED <<node, nalloc, nfree, next_ino, issued, inode, dcache>>
        ELSE IF mem = "nonode" \/ nalloc >= MaxNodes
          THEN /\ res' = TreeRes("mkdir", "ENOMEM", pd, name, NULL)
               /\ UNCHANGED <<node, nalloc, nfree, next_ino, issued, inode, dcache>>
        ELSE
          LET nd == [vtfs_alloc_node(name, TRUE) EXCEPT !.ino = next_ino]
              linked == InsertHead(node, parent_node, k, nd)
          IN /\ nalloc' = k
             /\ next_ino' = NextIno(next_ino)
             /\ issued' = Append(issued, next_ino)
             /\ IF mem = "noinode" \/ FreeInodes = {}
                  THEN /\ node' = [linked EXCEPT
                                     ![parent_node].first_child =
                                        linked[k].next_sibling,
                                     ![k].next_sibling = NULL,
                                     ![k].parent = NULL,
                                     ![k].st = "freed"]
                       /\ nfree' = [nfree EXCEPT ![k] = @ + 1]
                       /\ res' = TreeRes("mkdir", "ENOMEM", pd, name, k)
                       /\ UNCHANGED <<inode, dcache>>
                  ELSE /\ node' = linked
                       /\ inode' = [inode EXCEPT
                                      ![NewInode] = vtfs_get_inode(k, nd),
                                      ![pd].i_nlink = @ + 1]
                       /\ dcache' = Instantiate(pd, name, NewInode)
                       /\ res' = TreeRes("mkdir", "OK", pd, name, k)
                       /\ UNCHANGED nfree
  /\ UNCHANGED <<bfree, mounted, ctx, concVars>>

\* d_delete after a successful unlink or rmdir: the dentry turns negative, and
\* the dentries below a removed directory are dropped.
Deleted(d) ==
  ((dcache \ {d}) \ ChildDentries(d.ino))
    \cup {[pd |-> d.pd, name |-> d.name, ino |-> NULL]}

\* The handlers that take a dentry of the parent: its inode must be bound to a
\* node that has not been released.
Handle(pd, d) ==
  /\ Positive(d)
  /\ d.pd = pd
  /\ inode[d.ino].live
  /\ inode[d.ino].i_private # NULL
  /\ node[inode[d.ino].i_private].st = "live"

\* vtfs_unlink: the node is the one bound to the dentry's inode.
vtfs_unlink(pd, d) ==
  /\ mounted
  /\ DirUsable(pd) /\ DirSafe(pd)
  /\ Handle(pd, d)
  /\ LET parent == inode[pd].i_private
         n == inode[d.ino].i_private
     IN IF node[n].is_dir
          THEN /\ res' = TreeRes("unlink", "EISDIR", pd, d.name, n)
               /\ UNCHANGED <<node, inode, dcache>>
        ELSE IF n \notin Range(Children(parent))
          THEN /\ res' = TreeRes("unlink", "ENOENT", pd, d.name, n)
               /\ UNCHANGED <<node, inode, dcache>>
        ELSE /\ node' = Detach(parent, n)
             /\ inode' = [inode EXCEPT ![d.ino].i_nlink = 0]
             /\ dcache' = Deleted(d)
             /\ res' = TreeRes("unlink", "OK", pd, d.name, n)
  /\ UNCHANGED <<nalloc, nfree, bfree, next_ino, issued, mounted, ctx, concVars>>

\* drop_nlink on an unsigned counter.
drop_nlink(nlink) == IF nlink = 0 THEN NlinkWrap ELSE nlink - 1

\* vtfs_rmdir
vtfs_rmdir(pd, d) ==
  /\ mounted
  /\ DirUsable(pd) /\ DirSafe(pd)
  /\ Handle(pd, d)
  /\ LET parent == inode[pd].i_private
         n == inode[d.ino].i_private
     IN IF ~node[n].is_dir
          THEN /\ res' = TreeRes("rmdir", "ENOTDIR", pd, d.name, n)
               /\ UNCHANGED <<node, inode, dcache>>
        ELSE IF node[n].first_child # NULL
          THEN /\ res' = TreeRes("rmdir", "ENOTEMPTY", pd, d.name, n)
               /\ UNCHANGED <<node, inode, dcache>>
        ELSE IF n \notin Range(Children(parent))
          THEN /\ res' = TreeRes("rmdir", "ENOENT", pd, d.name, n)
               /\ UNCHANGED <<node, inode, dcache>>
        ELSE /\ node' = Detach(parent, n)
             /\ inode' = [inode EXCEPT ![d.ino].i_nlink = 0,
                                       ![pd].i_nlink = drop_nlink(@)]
             /\ dcache' = Deleted(d)
             /\ res' = TreeRes("rmdir", "OK", pd, d.name, n)
  /\ UNCHANGED <<nalloc, nfree, bfree, next_ino, issued, mounted, ctx, concVars>>

\* vtfs_link: the new node aliases the data owner of the old dentry's node and
\* the new dentry shares the old inode.  The host refuses an inode whose link
\* count is already zero.
vtfs_link(od, pd, name, memok) ==
  /\ mounted
  /\ DirUsable(pd) /\ DirSafe(pd)
  /\ Negative(pd, name)
  /\ Handle(od.pd, od)
  /\ inode[od.ino].i_nlink # 0
  /\ LET old_node == inode[od.ino].i_private
         parent_node == inode[pd].i_private
         data_node == IF node[old_node].link_target # NULL
                        THEN node[old_node].link_target ELSE old_node
         k == nalloc + 1
     IN IF inode[od.ino].i_dir
          THEN /\ res' = TreeRes("link", "EPERM", pd, name, old_node)
               /\ UNCHANGED <<node, nalloc, inode, dcache>>
        ELSE IF ~memok \/ nalloc >= MaxNodes
          THEN /\ res' = TreeRes("link", "ENOMEM", pd, name, old_node)
               /\ UNCHANGED <<node, nalloc, inode, dcache>>
        ELSE
          LET nd == [NoNode EXCEPT !.st = "live",
                                   !.name = strscpy(name, VTFS_FILE_NAME_LEN),
                                   !.ino = node[old_node].ino,
                                   !.is_dir = FALSE,
                                   !.link_target = data_node]
          IN /\ nalloc' = k
             /\ node' = InsertHead(node, parent_node, k, nd)
             /\ inode' = [inode EXCEPT ![od.ino].i_nlink = @ + 1]
             /\ dcache' = Instantiate(pd, name, od.ino)
             /\ res' = TreeRes("link", "OK", pd, name, k)
  /\ UNCHANGED <<nfree, bfree, next_ino, issued, mounted, ctx, concVars>>

\* The host drops a dentry it does not need: a negative one, or one of several
\* names of an inode.
Forget(d) ==
  /\ mounted
  /\ d \in dcache
  /\ d.ino # NULL => Cardinality(DentriesOf(d.ino)) > 1
  /\ dcache' = dcache \ {d}
  /\ res' = [op |-> "forget"]
  /\ UNCHANGED <<node, nalloc, nfree, bfree, next_ino, issued, mounted, inode, ctx, concVars>>

\* kfree(node->data) when the node is no alias, then kfree(node).
Release(frees, n) == [frees EXCEPT ![n] = @ + 1]
ReleaseBuffer(frees, n) ==
  IF node[n].link_target = NULL /\ node[n].data # <<>>
    THEN [frees EXCEPT ![n] = @ + 1] ELSE frees

\* vtfs_evict_inode, called when the host gives up its last reference to the
\* inode: its last dentry goes (with the negative dentries below it), and the
\* node is released if the link count is zero.
vtfs_evict_inode(i) ==
  /\ mounted
  /\ inode[i].live
  /\ IF i = ROOT_INODE
       THEN dcache = {} /\ \A j \in InodeIds \ {i} : ~inode[j].live
       ELSE /\ Cardinality(DentriesOf(i)) <= 1
            /\ \A d \in ChildDentries(i) : d.ino = NULL
  /\ dcache' = (dcache \ DentriesOf(i)) \ ChildDentries(i)
  /\ LET n == inode[i].i_private
     IN IF n = NULL \/ inode[i].i_nlink # 0
          THEN /\ inode' = [inode EXCEPT ![i] = NoInode]
               /\ res' = [op |-> "evict", n |-> n, freed |-> FALSE]
               /\ UNCHANGED <<node, nfree, bfree>>
          ELSE /\ bfree' = ReleaseBuffer(bfree, n)
               /\ nfree' = Release(nfree, n)
               /\ node' = [node EXCEPT ![n].st = "freed"]
               /\ inode' = [inode EXCEPT ![i] = NoInode]
               /\ res' = [op |-> "evict", n |-> n, freed |-> TRUE]
  /\ UNCHANGED <<nalloc, next_ino, issued, mounted, ctx, concVars>>

\* vtfs_free_node_recursive: the nodes it visits from node n, children first,
\* reading first_child and next_sibling of each node it reaches.
RECURSIVE Visits(_, _)
RECURSIVE VisitChain(_, _)
Visits(n, fuel) ==
  IF n = NULL \/ fuel = 0 THEN <<>>
  ELSE VisitChain(node[n].first_child, fuel - 1) \o <<n>>
VisitChain(c, fuel) ==
  IF c = NULL \/ fuel = 0 THEN <<>>
  ELSE Visits(c, fuel) \o VisitChain(node[c].next_sibling, fuel - 1)

Count(q, x) == Cardinality({k \in 1..Len(q) : q[k] = x})

\* vtfs_put_super, after the host has dropped every dentry and evicted every
\* inode: every node still chained below the root is released, its buffer too
\* unless it is an alias.
vtfs_put_super ==
  /\ mounted
  /\ dcache = {}
  /\ \A i \in InodeIds : ~inode[i].live
  /\ LET visited == Visits(1, 2 * MaxNodes)
     IN /\ nfree' = [n \in NodeIds |-> nfree[n] + Count(visited, n)]
        /\ bfree' = [n \in NodeIds |->
                       IF node[n].link_target = NULL /\ node[n].data # <<>>
                         THEN bfree[n] + Count(visited, n) ELSE bfree[n]]
        /\ node' = [n \in NodeIds |->
                      IF Count(visited, n) > 0 THEN [node[n] EXCEPT !.st = "freed"]
                      ELSE node[n]]
        /\ res' = [op |-> "put_super", visited |-> visited]
  /\ mounted' = FALSE
  /\ UNCHANGED <<nalloc, next_ino, issued, inode, dcache, ctx, concVars>>

\* A handler entered with memory that has been released (a parent whose chain
\* holds a released node, a dentry whose inode is bound to one): what it reads
\* is undefined, and nothing is modelled of the call but that it happened.
UseAfterFree ==
  /\ mounted
  /\ \/ \E pd \in InodeIds : DirUsable(pd) /\ ~DirSafe(pd)
     \/ \E d \in dcache :
          /\ d.ino # NULL /\ inode[d.ino].i_private # NULL
          /\ node[inode[d.ino].i_private].st = "freed"
  /\ res' = [op |-> "uaf"]
  /\ UNCHANGED <<node, nalloc, nfree, bfree, next_ino, issued, mounted, inode,
                 dcache, ctx, concVars>>

Mem == {"ok", "nonode", "noinode"}

TreeLookup == \E pd \in InodeIds, name \in Names, iok \in BOOLEAN :
                vtfs_lookup(pd, name, iok)
TreeCreate == \E pd \in InodeIds, name \in Names, mem \in Mem :
                vtfs_create(pd, name, mem)
TreeMkdir == \E pd \in InodeIds, name \in Names, mem \in Mem :
               vtfs_mkdir(pd, name, mem)
TreeUnlink == \E d \in dcache : vtfs_unlink(d.pd, d)
TreeRmdir == \E d \in dcache : vtfs_rmdir(d.pd, d)
TreeLink == \E od \in dcache, pd \in InodeIds, name \in Names, memok \in BOOLEAN :
              vtfs_link(od, pd, name, memok)
TreeForget == \E d \in dcache : Forget(d)
TreeEvict == \E i \in InodeIds : vtfs_evict_inode(i)

Next ==
  \/ TreeLookup \/ TreeCreate \/ TreeMkdir \/ TreeUnlink \/ TreeRmdir
  \/ TreeLink \/ TreeForget \/ TreeEvict \/ vtfs_put_super \/ UseAfterFree

Spec == Init /\ [][Next]_vars

\* ------------------------------------------------------- directory listing
\* One listing session: a directory opened by the host, the cursor ctx->pos it
\* carries from one vtfs_iterate call to the next, and all that the calls have
\* emitted.  The tree is not changed while a session is open.
NamesWide == Names \cup { <<"c">> }

DirEntry(name, ino, is_dir) == [name |-> name, ino |-> ino, is_dir |-> is_dir]

\* The inode number dir_emit_dots gives for "..": the parent dentry's inode.
ParentIno(i) ==
  IF DentriesOf(i) = {} THEN inode[i].i_ino
  ELSE inode[(CHOOSE d \in DentriesOf(i) : TRUE).pd].i_ino

\* dir_emit_dots: "." at cursor 0 and ".." at cursor 1.
Dots(i, pos) ==
  (IF pos = 0 THEN <<DirEntry(<<".">>, inode[i].i_ino, TRUE)>> ELSE <<>>)
    \o (IF pos <= 1 THEN <<DirEntry(<<"..">>, ParentIno(i), TRUE)>> ELSE <<>>)

\* A skip loop that starts one child too early.
SkipChildren_early(q, idx) ==
  IF idx - 1 >= Len(q) THEN <<>> ELSE SubSeq(q, Max(idx, 1), Len(q))

\* "while (child && idx > 0) { child = child->next_sibling; idx--; }"
SkipChildren(q, idx) ==
  IF idx >= Len(q) THEN <<>> ELSE SubSeq(q, idx + 1, Len(q))

\* "uint idx = pos - 2" for a cursor the dots have brought to 2 or beyond.
Idx(pos) == (pos - 2) % UINT_RANGE

ChildEntries(q) ==
  [k \in 1..Len(q) |-> DirEntry(node[q[k]].name, node[q[k]].ino, node[q[k]].is_dir)]

\* All that one call emits when the consumer refuses nothing.
Pending(i, pos) ==
  Dots(i, pos)
    \o ChildEntries(SkipChildren(Children(inode[i].i_private), Idx(Max(pos, 2))))

IterOpen(i) ==
  /\ mounted
  /\ ~ctx.open
  /\ DirUsable(i) /\ DirSafe(i)
  /\ ctx' = [open |-> TRUE, ino |-> i, pos |-> 0, emitted |-> <<>>,
             cuts |-> {}, done |-> FALSE]
  /\ res' = [op |-> "opendir"]
  /\ UNCHANGED <<node, inode, treeVars, concVars>>

\* vtfs_iterate; acc: how many entries the consumer takes before it refuses
\* one.  The call returns 0 whether the consumer refused or the list ended.
vtfs_iterate(acc) ==
  /\ mounted
  /\ ctx.open
  /\ \E pend \in {Pending(ctx.ino, ctx.pos)} :
       LET n == Min(acc, Len(pend))
       IN /\ ctx' = [ctx EXCEPT !.pos = @ + n,
                                !.emitted = @ \o SubSeq(pend, 1, n),
                                !.cuts = IF acc < Len(pend)
                                           THEN @ \cup {ctx.pos + n} ELSE @,
                                !.done = acc >= Len(pend)]
          /\ res' = [op |-> "iterate", err |-> "OK", ret |-> 0, n |-> n]
  /\ UNCHANGED <<node, inode, treeVars, concVars>>

IterClose ==
  /\ ctx.open
  /\ ctx' = NoCtx
  /\ res' = [op |-> "closedir"]
  /\ UNCHANGED <<node, inode, treeVars, concVars>>

IterCreate == ~ctx.open /\ \E pd \in InodeIds, name \in NamesWide :
                              vtfs_create(pd, name, "ok")
IterMkdir == ~ctx.open /\ \E pd \in InodeIds, name \in NamesWide :
                             vtfs_mkdir(pd, name, "ok")
IterUnlink == ~ctx.open /\ TreeUnlink
IterRmdir == ~ctx.open /\ TreeRmdir
IterList == \E i \in InodeIds : IterOpen(i)
IterCall == \E acc \in 0..(MaxNodes + 1) : vtfs_iterate(acc)

NextIter ==
  \/ IterCreate \/ IterMkdir \/ IterUnlink \/ IterRmdir
  \/ IterList \/ IterCall \/ IterClose

SpecIter == Init /\ [][NextIter]_vars

\* ------------------------------------------------ listing from any cursor
\* vtfs_iterate takes the cursor from the dir_context the host hands it:
\* ctx->pos is a loff_t, and the host (or a file system stacked on this one)
\* may present any value of it, not only one that earlier calls have left.
\* The cursors tried reach past the range of the unsigned idx.
CursorRange == 0..(UINT_RANGE + MaxNodes)

IterOpenAt(i, n) ==
  /\ mounted
  /\ ~ctx.open
  /\ DirUsable(i) /\ DirSafe(i)
  /\ ctx' = [open |-> TRUE, ino |-> i, pos |-> n, emitted |-> <<>>,
             cuts |-> {}, done |-> FALSE]
  /\ res' = [op |-> "opendir"]
  /\ UNCHANGED <<node, inode, treeVars, concVars>>

CursorCreate == ~ctx.open /\ \E name \in Names : vtfs_create(ROOT_INODE, name, "ok")
CursorUnlink == ~ctx.open /\ TreeUnlink
CursorOpen == \E n \in CursorRange : IterOpenAt(ROOT_INODE, n)

NextCursor ==
  CursorCreate \/ CursorUnlink \/ CursorOpen \/ IterCall \/ IterClose

SpecCursor == Init /\ [][NextCursor]_vars

\* ------------------------------------------------- hard links and file data
\* The file operations reached through a dentry whose node, or whose node's
\* link_target, has been released: vtfs_data_node hands back released memory,
\* and what the call reads from it (lock, size, data) is undefined.  A write
\* may report anything from an error to a full copy; a read may deliver any
\* bytes.
Released(d) ==
  /\ FileDentry(d)
  /\ \/ node[inode[d.ino].i_private].st = "freed"
     \/ node[DataNodeOf(d)].st = "freed"

Bytes == {0, 1, 2}
AnyBytes(len) == UNION {[1..k -> Bytes] : k \in 0..len}

WriteReleased(d, pos, len, p, full) ==
  /\ mounted
  /\ Released(d)
  /\ res' = [op |-> "write", via |-> d, n |-> DataNodeOf(d), pos |-> pos,
             len |-> len, bytes |-> UserBuf(len, p),
             err |-> IF full THEN "OK" ELSE "EFAULT",
             ret |-> IF full THEN len ELSE 0, full |-> full,
             newpos |-> IF full THEN pos + len ELSE pos, osize |-> 0]
  /\ UNCHANGED <<node, inode, treeVars, ctx, concVars>>

ReadReleased(d, pos, len, out) ==
  /\ mounted
  /\ Released(d)
  /\ res' = [op |-> "read", via |-> d, n |-> DataNodeOf(d), pos |-> pos,
             len |-> len, err |-> "OK", ret |-> Len(out), out |-> out,
             newpos |-> pos + Len(out),
             kind |-> ReadKind(DataNodeOf(d), pos, len), osz |-> 0]
  /\ UNCHANGED <<node, inode, treeVars, ctx, concVars>>

LinkCreate == vtfs_create(ROOT_INODE, <<"a">>, "ok")
LinkLink == \E od \in dcache, name \in NamesWide :
              vtfs_link(od, ROOT_INODE, name, TRUE)
LinkUnlink == TreeUnlink
LinkLookup == \E name \in NamesWide : vtfs_lookup(ROOT_INODE, name, TRUE)
LinkForget == TreeForget
LinkEvict == \E i \in InodeIds \ {ROOT_INODE} : vtfs_evict_inode(i)
LinkWrite == \E d \in dcache :
               \/ vtfs_write(d, FALSE, 0, 1, 0, TRUE, 1, 1)
               \/ WriteReleased(d, 0, 1, 0, TRUE)
LinkRead == \E d \in dcache :
              \/ vtfs_read(d, 0, 1, 1)
              \/ \E out \in AnyBytes(1) : ReadReleased(d, 0, 1, out)
LinkTrunc == \E d \in dcache : vtfs_open(d, TRUE)

NextLink ==
  \/ LinkCreate \/ LinkLink \/ LinkUnlink \/ LinkLookup \/ LinkForget
  \/ LinkEvict \/ LinkWrite \/ LinkRead \/ LinkTrunc

SpecLink == Init /\ [][NextLink]_vars

\* ------------------------------------- file data next to aliases and folders
\* The writes and truncates of the buffer engine, through every name of the
\* file, in a tree that also gets an alias of the file and a directory.
DataWrite ==
  \E d \in dcache, ppos \in {0, MaxLen}, len \in WriteLen, memok \in BOOLEAN :
    \E c \in 0..len :
      /\ ~memok => c = len
      /\ vtfs_write(d, FALSE, ppos, len, 0, memok, c, c)
DataLink == \E od \in dcache : vtfs_link(od, ROOT_INODE, <<"b">>, TRUE)
DataMkdir == vtfs_mkdir(ROOT_INODE, <<"c">>, "ok")
DataForget == TreeForget
DataLookup == \E name \in NamesWide : vtfs_lookup(ROOT_INODE, name, TRUE)

NextData ==
  \/ DataWrite \/ BufWriteBad \/ BufOpen
  \/ DataLink \/ DataMkdir \/ DataForget \/ DataLookup

SpecData == InitBuf /\ [][NextData]_vars

\* ------------------------------------------- file operations run by threads
\* A file operation as a thread runs it: the part before mutex_lock (for a
\* write, the position: node->size when O_APPEND is set), the part under the
\* lock, and mutex_unlock with the return.  o is the call: [kind, via, ...].
OpNode(o) == DataNodeOf(o.via)

Returned(o, n, e, r) == [pc |-> "done", o |-> o, n |-> n, err |-> e, ret |-> r]

\* vtfs_write up to mutex_lock.
WriteEntry(o, n) ==
  LET pos == IF o.append THEN node[n].size ELSE o.ppos
  IN IF pos < 0 THEN Returned(o, n, "EINVAL", 0)
     ELSE IF o.len = 0 THEN Returned(o, n, "OK", 0)
     ELSE IF pos > SIZE_MAX \/ o.len > SIZE_MAX - pos
       THEN Returned(o, n, "EFBIG", 0)
     ELSE [pc |-> "wait", o |-> o, n |-> n, pos |-> pos]

\* vtfs_read up to mutex_lock.
ReadEntry(o, n) ==
  IF o.ppos < 0 THEN Returned(o, n, "EINVAL", 0)
  ELSE [pc |-> "wait", o |-> o, n |-> n, pos |-> o.ppos]

\* vtfs_open with O_TRUNC up to mutex_lock.
TruncEntry(o, n) == [pc |-> "wait", o |-> o, n |-> n, pos |-> 0]

Entry(o, n) ==
  IF o.kind = "write" THEN WriteEntry(o, n)
  ELSE IF o.kind = "read" THEN ReadEntry(o, n)
  ELSE TruncEntry(o, n)

ConcStart(t, o) ==
  /\ mounted
  /\ thr[t].pc = "idle"
  /\ Usable(o.via)
  /\ thr' = [thr EXCEPT ![t] = Entry(o, OpNode(o))]
  /\ base' = IF \A u \in Threads : thr[u].pc = "idle" THEN node ELSE base
  /\ UNCHANGED <<node, inode, treeVars, res, ctx, lock>>

\* The data node after the part of the call that runs under the lock.
Locked(nd, w) ==
  IF w.o.kind = "write"
    THEN LET r == WriteResult(nd, w.o.ppos, w.pos, w.o.len, w.o.p, w.o.memok,
                              w.o.c1, w.o.c2)
         IN [nd |-> [nd EXCEPT !.data = r.data, !.size = r.size,
                               !.capacity = r.capacity],
             err |-> r.err, ret |-> r.ret, sync |-> r.sync]
  ELSE IF w.o.kind = "read"
    THEN LET r == ReadResult(nd, w.pos, w.o.len, w.o.uok)
         IN [nd |-> nd, err |-> r.err, ret |-> r.ret, sync |-> FALSE]
  ELSE [nd |-> Truncated(nd), err |-> "OK", ret |-> 0, sync |-> TRUE]

\* A mutex_unlock that is left out.
Unlock_leak(lk, n) == lk

\* mutex_lock(&node->lock) by thread t and mutex_unlock(&node->lock).
Lock(lk, n, t) == [lk EXCEPT ![n] = t]
Unlock(lk, n) == [lk EXCEPT ![n] = 0]

\* mutex_lock and the work done under the lock.
ConcLock(t) ==
  /\ thr[t].pc = "wait"
  /\ lock[thr[t].n] = 0
  /\ node[thr[t].n].st = "live"
  /\ \E r \in {Locked(node[thr[t].n], thr[t])} :
       /\ node' = [node EXCEPT ![thr[t].n] = r.nd]
       /\ inode' = [inode EXCEPT ![thr[t].o.via.ino].i_size =
                                    IF r.sync THEN r.nd.size ELSE @]
       /\ thr' = [thr EXCEPT ![t] =
                    [pc |-> "held", o |-> thr[t].o, n |-> thr[t].n,
                     err |-> r.err, ret |-> r.ret]]
  /\ lock' = Lock(lock, thr[t].n, t)
  /\ UNCHANGED <<treeVars, res, ctx, base>>

\* out_unlock: mutex_unlock and return.
ConcUnlock(t) ==
  /\ thr[t].pc = "held"
  /\ lock' = Unlock(lock, thr[t].n)
  /\ thr' = [thr EXCEPT ![t].pc = "done"]
  /\ UNCHANGED <<node, inode, treeVars, res, ctx, base>>

\* Every call has returned: the threads are free for the next calls.
ConcReset ==
  /\ \A t \in Threads : thr[t].pc \in {"idle", "done"}
  /\ \E t \in Threads : thr[t].pc = "done"
  /\ thr' = [t \in Threads |-> Idle]
  /\ base' = node
  /\ UNCHANGED <<node, inode, treeVars, res, ctx, lock>>

\* The calls the threads make: writes whose copy succeeds, reads and truncates.
WriteOp(d, append, ppos, len, p, memok, c) ==
  [kind |-> "write", via |-> d, append |-> append, ppos |-> ppos, len |-> len,
   p |-> p, memok |-> memok, c1 |-> c, c2 |-> c]
ReadOp(d, ppos, len, uok) ==
  [kind |-> "read", via |-> d, ppos |-> ppos, len |-> len, uok |-> uok]
TruncOp(d) == [kind |-> "trunc", via |-> d]

ConcOps ==
  {WriteOp(d, append, 0, len, p, TRUE, len) :
     d \in dcache, append \in BOOLEAN, len \in 1..MaxLen, p \in Patterns}
    \cup {ReadOp(d, 0, 1, 1) : d \in dcache}
    \cup {TruncOp(d) : d \in dcache}

ConcCall == \E t \in Threads, o \in ConcOps : ConcStart(t, o)
ConcAcquire == \E t \in Threads : ConcLock(t)
ConcRelease == \E t \in Threads : ConcUnlock(t)

NextConc == ConcCall \/ ConcAcquire \/ ConcRelease \/ ConcReset

SpecConc == InitBuf /\ [][NextConc]_vars

\* -------------------------------------------- threads under fair scheduling
\* One call for every way out of vtfs_write, vtfs_read and vtfs_open: the
\* returns before mutex_lock (negative position, empty write, range check), the
\* failures under the lock (growth limit, krealloc, copy fault) and the
\* successes.  A second file, once created, takes the calls that succeed.
ExitOps(d) ==
  {WriteOp(d, FALSE, 0, 1, 0, TRUE, 1), TruncOp(d)}
    \cup IF d.name # <<"a">> THEN {}
         ELSE {WriteOp(d, FALSE, 0 - 1, 1, 0, TRUE, 1),
               WriteOp(d, FALSE, 0, 0, 0, TRUE, 0),
               WriteOp(d, FALSE, SIZE_MAX, 1, 0, TRUE, 1),
               WriteOp(d, FALSE, SIZE_MAX \div 2 + 1, 1, 0, TRUE, 1),
               WriteOp(d, FALSE, 0, 1, 0, FALSE, 1),
               WriteOp(d, FALSE, 0, 1, 0, TRUE, 0),
               ReadOp(d, 0 - 1, 1, 1),
               ReadOp(d, 0, 1, 0),
               ReadOp(d, 0, 1, 1)}

FairCall == \E t \in Threads, d \in dcache : \E o \in ExitOps(d) : ConcStart(t, o)

\* The caller takes the result of a returned call; the thread is free again.
ConcReturn(t) ==
  /\ thr[t].pc = "done"
  /\ thr' = [thr EXCEPT ![t] = Idle]
  /\ UNCHANGED <<node, inode, treeVars, res, ctx, lock, base>>

FairReturn == \E t \in Threads : ConcReturn(t)

\* A tree operation that runs next to the file operations: it makes a second
\* file, with a lock of its own.
FairCreate == vtfs_create(ROOT_INODE, <<"b">>, "ok")

NextFair ==
  FairCall \/ ConcAcquire \/ ConcRelease \/ FairReturn \/ FairCreate

\* A thread that holds the lock runs on to mutex_unlock (nothing under the lock
\* blocks), and a thread waiting in mutex_lock gets the lock when it is
\* released again and again (the mutex hands the lock over to its waiters).
SpecFair ==
  /\ InitBuf
  /\ [][NextFair]_vars
  /\ \A t \in Threads : WF_vars(ConcUnlock(t)) /\ SF_vars(ConcLock(t))

\* ------------------------------------------------------------------ claims
IsPrefix(a, b) == Len(a) <= Len(b) /\ SubSeq(b, 1, Len(a)) = a

\* C1 as stated: a read right after a fully copied write of bytes B, at the
\* same position and with the same length, returns exactly B.
C1_ReadReturnsWritten ==
  [][(res'.op = "read" /\ res'.kind = "roundtrip")
       => (res'.err = "OK" /\ res'.out = res.bytes)]_vars

\* C1 amended: a fully copied write of at least one byte leaves
\* size = max(old size, pos + len), and a read right after it at the same
\* position and length returns exactly the bytes written unless the copy to
\* the reader's buffer faults, in which case it fails with EFAULT, counts no
\* byte, leaves the position where it was and has delivered only a strict
\* prefix of them.
C1_RoundTrip ==
  [][/\ (FullWrite(res') /\ res'.len > 0) =>
          node'[res'.n].size = Max(res'.osize, res'.pos + res'.len)
     /\ (res'.op = "read" /\ res'.kind = "roundtrip") =>
          \/ res'.err = "OK" /\ res'.out = res.bytes /\ res'.ret = res.len
          \/ /\ res'.err = "EFAULT"
             /\ res'.ret = 0 /\ res'.newpos = res'.pos
             /\ IsPrefix(res'.out, res.bytes)
             /\ Len(res'.out) < res.len]_vars

\* C1 witness: MaxLen bytes written at offset 0 made the buffer grow past one
\* page and were read back whole.
C1_Witness ==
  /\ res.op = "read" /\ res.kind = "roundtrip" /\ res.err = "OK"
  /\ res.pos = 0 /\ res.len = MaxLen /\ Len(res.out) = MaxLen
  /\ node[res.n].size = MaxLen
  /\ node[res.n].capacity > PAGE_SIZE

\* C2: a fully copied write of n > 0 bytes at a position o past the size s
\* leaves size = o + n, and a read inside the gap [s, o) right after it delivers
\* zero bytes only: all the bytes asked for when the copy-out does not fault.
C2_HoleZeroFill ==
  [][/\ HoleWrite(res') => node'[res'.n].size = res'.pos + res'.len
     /\ (res'.op = "read" /\ res'.kind = "gap") =>
          /\ \A k \in 1..Len(res'.out) : res'.out[k] = 0
          /\ res'.err \in {"OK", "EFAULT"}
          /\ res'.err = "OK" => Len(res'.out) = res'.len]_vars

\* C2 witness: a gap above earlier content was read back and is zero.
C2_Witness ==
  /\ res.op = "read" /\ res.kind = "gap" /\ res.err = "OK"
  /\ res.osz > 0 /\ Len(res.out) > 0

\* C3: open with O_TRUNC leaves size = capacity = 0 and no buffer, and every
\* read at offset 0 that follows it before any write returns 0 bytes and no
\* error.
C3_TruncateEmpties ==
  /\ res.op = "trunc" =>
       /\ node[res.n].size = 0
       /\ node[res.n].capacity = 0
       /\ node[res.n].data = <<>>
  /\ (res.op = "read" /\ res.kind = "trunc" /\ res.pos = 0) =>
       /\ res.err = "OK" /\ res.ret = 0 /\ res.out = <<>>

\* C3 witness: a file that held bytes was truncated and then read at offset 0.
C3_Witness ==
  /\ res.op = "read" /\ res.kind = "trunc" /\ res.pos = 0 /\ res.len > 0
  /\ res.osz > 0


\* ---- C4
DataOwner(n) == IF node[n].link_target # NULL THEN node[n].link_target ELSE n

\* C4: an alias's data owner is never itself an alias; a read through one name
\* right after a fully copied write through another name of the same data
\* owner, at the same position and length, returns the bytes written; and a
\* read through one name right after a truncate through another returns
\* nothing.
C4_SharedBuffer ==
  [][/\ \A n \in NodeIds :
          node'[n].link_target # NULL =>
            node'[node'[n].link_target].link_target = NULL
     /\ (/\ res'.op = "read" /\ FullWrite(res)
         /\ res'.n = res.n /\ res'.via # res.via
         /\ res'.pos = res.pos /\ res'.len = res.len) =>
          (res'.err = "OK" /\ res'.out = res.bytes)
     /\ (/\ res'.op = "read" /\ res.op = "trunc"
         /\ res'.n = res.n /\ res'.via # res.via) =>
          (res'.err = "OK" /\ res'.out = <<>>)]_vars

\* ---- C5
NamedIn(p, name) == {c \in Range(Children(p)) : node[c].name = name}

\* C5: vtfs_mkdir under a parent whose children already hold a node of that
\* name fails with EEXIST; it allocates no node, issues no identifier and
\* leaves every node, so the parent's children, as they were.
C5_MkdirExisting ==
  [][res'.op = "mkdir" =>
       /\ NamedIn(res'.dir, res'.name) # {} =>
            /\ res'.err = "EEXIST"
            /\ nalloc' = nalloc /\ next_ino' = next_ino /\ issued' = issued
            /\ node' = node
       /\ res'.err = "EEXIST" => NamedIn(res'.dir, res'.name) # {}]_vars

\* C5 witness: a mkdir was refused with EEXIST, and the parent holds exactly
\* one child of that name.
C5_Witness ==
  /\ res.op = "mkdir" /\ res.err = "EEXIST"
  /\ Cardinality(NamedIn(res.dir, res.name)) = 1

\* ---- C6
\* C6: vtfs_unlink of a directory node fails with EISDIR, vtfs_rmdir of a file
\* node with ENOTDIR, vtfs_rmdir of a directory that has a child with
\* ENOTEMPTY; each of these failures leaves nodes and inodes (so link counts)
\* unchanged; vtfs_rmdir of a childless directory that is in the parent's
\* chain succeeds and takes it out of the chain.
C6_RemoveErrors ==
  [][/\ (res'.op = "unlink" /\ node[res'.n].is_dir) => res'.err = "EISDIR"
     /\ (res'.op = "rmdir" /\ ~node[res'.n].is_dir) => res'.err = "ENOTDIR"
     /\ (/\ res'.op = "rmdir" /\ node[res'.n].is_dir
         /\ node[res'.n].first_child # NULL) => res'.err = "ENOTEMPTY"
     /\ (/\ res'.op \in {"unlink", "rmdir"}
         /\ res'.err \in {"EISDIR", "ENOTDIR", "ENOTEMPTY"}) =>
          (node' = node /\ inode' = inode)
     /\ (/\ res'.op = "rmdir" /\ node[res'.n].is_dir
         /\ node[res'.n].first_child = NULL
         /\ res'.n \in Range(Children(res'.dir))) =>
          /\ res'.err = "OK"
          /\ node'[res'.n].parent = NULL
          /\ \A k \in NodeIds :
               node'[k].st = "live" =>
                 /\ node'[k].first_child # res'.n
                 /\ node'[k].next_sibling # res'.n]_vars

\* C6 witness: a directory has been removed after the subdirectory made inside
\* it (a later node of the same name, which only its own chain could hold
\* beside it) was removed.
C6_Witness ==
  /\ res.op = "rmdir" /\ res.err = "OK"
  /\ node[res.n].first_child = NULL
  /\ \E c \in NodeIds :
       /\ node[c].st # "none" /\ node[c].is_dir
       /\ node[c].ino > node[res.n].ino
       /\ node[c].name = node[res.n].name
       /\ node[c].parent = NULL

\* ---- C7
\* C7: the identifiers issued are strictly increasing in issuance order and
\* below the counter; two node records carry the same identifier only if they
\* are files with the same data owner, at least one of them an alias; and every
\* node record, released or not, carries an issued identifier.
C7_UniqueIds ==
  /\ \A k \in 1..(Len(issued) - 1) : issued[k] < issued[k + 1]
  /\ \A k \in 1..Len(issued) : issued[k] < next_ino
  /\ \A n \in NodeIds :
       node[n].st # "none" => \E k \in 1..Len(issued) : issued[k] = node[n].ino
  /\ \A n1, n2 \in NodeIds :
       (/\ n1 # n2 /\ node[n1].st # "none" /\ node[n2].st # "none"
        /\ node[n1].ino = node[n2].ino) =>
         /\ DataOwner(n1) = DataOwner(n2)
         /\ node[n1].link_target # NULL \/ node[n2].link_target # NULL

\* C7 witness: three identifiers issued, one of them to a create that failed
\* after taking it, and an alias that shares its owner's identifier.
C7_Witness ==
  /\ Len(issued) = 3
  /\ \E f \in NodeIds :
       /\ node[f].st = "freed" /\ nfree[f] = 1 /\ node[f].link_target = NULL
       /\ \A i \in InodeIds : inode[i].i_private # f
       /\ \E a, b \in NodeIds :
            /\ node[b].link_target = a /\ node[a].ino = node[b].ino
            /\ node[a].ino > node[f].ino

\* ---- C8
\* The listing of directory inode i in one uninterrupted call from cursor 0.
Listing(i) ==
  <<DirEntry(<<".">>, inode[i].i_ino, TRUE),
    DirEntry(<<"..">>, ParentIno(i), TRUE)>>
    \o ChildEntries(Children(inode[i].i_private))

\* C8: however the calls of a session were cut short by the consumer, what
\* they emitted so far is the uninterrupted listing up to the cursor, and a
\* call that the consumer did not cut short leaves the whole listing emitted
\* and the cursor at k + 2.
C8_Resumable ==
  ctx.open =>
    /\ ctx.pos <= Len(Listing(ctx.ino))
    /\ ctx.emitted = SubSeq(Listing(ctx.ino), 1, ctx.pos)
    /\ ctx.done =>
         /\ ctx.emitted = Listing(ctx.ino)
         /\ ctx.pos = Len(Children(inode[ctx.ino].i_private)) + 2

\* C8 witness: a directory with two children was listed to the end by calls
\* that the consumer cut short between the dots and between the children.
C8_Witness ==
  /\ ctx.open /\ ctx.done
  /\ Len(Children(inode[ctx.ino].i_private)) = 2
  /\ {1, 3} \subseteq ctx.cuts
  /\ Len(ctx.emitted) = 4

\* ---- C9
\* C9: every node record and every buffer is released at most once, whether by
\* eviction, by a failed create or mkdir, or by the teardown.
C9_NoDoubleRelease ==
  \A n \in NodeIds : nfree[n] <= 1 /\ bfree[n] <= 1

\* ---- C10
Attached(n) ==
  \E p \in NodeIds : node[p].st = "live" /\ n \in Range(Children(p))

NamesOf(n) ==
  {m \in NodeIds : node[m].st = "live" /\ Attached(m) /\ DataOwner(m) = DataOwner(n)}

\* C10: the link count of a file's inode equals the number of attached nodes
\* (the data owner and its aliases) that resolve to the file.
C10_LinkCount ==
  \A i \in InodeIds :
    (/\ inode[i].live /\ ~inode[i].i_dir /\ inode[i].i_private # NULL
     /\ node[inode[i].i_private].st = "live") =>
      inode[i].i_nlink = Cardinality(NamesOf(inode[i].i_private))


\* ---- C11
\* The data node after the whole of call o has run on node record nd with no
\* other call in between.
Alone(nd, o) ==
  IF o.kind = "write"
    THEN LET r == WriteResult(nd, o.ppos, IF o.append THEN nd.size ELSE o.ppos,
                              o.len, o.p, o.memok, o.c1, o.c2)
         IN [nd EXCEPT !.data = r.data, !.size = r.size, !.capacity = r.capacity]
  ELSE IF o.kind = "read" THEN nd
  ELSE Truncated(nd)

\* The calls of the threads in `order` run one after the other on node n.
RECURSIVE InTurn(_, _, _)
InTurn(nd, n, order) ==
  IF order = <<>> THEN nd
  ELSE InTurn(IF thr[Head(order)].n = n THEN Alone(nd, thr[Head(order)].o) ELSE nd,
              n, Tail(order))

Orders(D) ==
  {q \in [1..Cardinality(D) -> D] : \A i, j \in 1..Cardinality(D) : q[i] = q[j] => i = j}

Content(nd) == [size |-> nd.size, bytes |-> SubSeq(nd.data, 1, nd.size)]

\* C11: once the calls that ran at the same time have all returned, the size
\* and the bytes of every file are those that some order of the whole calls,
\* run one after the other, would have left.
C11_Serialized ==
  (\A t \in Threads : thr[t].pc \in {"idle", "done"}) =>
    LET D == {t \in Threads : thr[t].pc = "done"}
    IN \E q \in Orders(D) :
         \A n \in NodeIds :
           (node[n].st = "live" /\ ~node[n].is_dir) =>
             Content(node[n]) = Content(InTurn(base[n], n, q))


\* ---- C12
C12_LockInv ==
  /\ \A n \in NodeIds :
       lock[n] # 0 => (thr[lock[n]].pc = "held" /\ thr[lock[n]].n = n)
  /\ \A t \in Threads : Cardinality({n \in NodeIds : lock[n] = t}) <= 1

\* C12: a lock is held only by a file operation that is still running, on the
\* one node it works on, and by no operation that has returned, whatever the
\* way out; a tree operation leaves every lock as it was; and under fair
\* scheduling every call that has started returns.
C12_LockDiscipline ==
  /\ []C12_LockInv
  /\ [][res' # res => lock' = lock]_vars
  /\ \A t \in Threads : (thr[t].pc \in {"wait", "held"}) ~> (thr[t].pc = "done")

\* A call has returned from a copy fault and another thread now holds the lock
\* of the same node.
C12_Witness ==
  \E t, u \in Threads :
    /\ thr[t].pc = "done" /\ thr[t].err = "EFAULT"
    /\ thr[u].pc = "held" /\ thr[u].n = thr[t].n
    /\ lock[thr[u].n] = u


\* ---- C13
\* C13: a write whose copy-in stops after c of its len bytes (c < len) returns
\* c when c >= 1, with the size the larger of the old size and pos + c, the
\* file position pos + c and the inode's size equal to the node's; it fails
\* with EFAULT exactly when c = 0; and the count returned is the number of the
\* caller's bytes that the buffer holds from pos on after the call.
C13_PartialWrite ==
  [][(res'.op = "write" /\ ~res'.full /\ res'.err \in {"OK", "EFAULT"}) =>
       LET c == res'.ret
           nd == node'[res'.n]
       IN /\ c < res'.len
          /\ (res'.err = "EFAULT") <=> (c = 0)
          /\ \A k \in 1..res'.len :
               nd.data[res'.pos + k] = IF k <= c THEN res'.bytes[k] ELSE 0
          /\ c >= 1 =>
               /\ nd.size = Max(res'.osize, res'.pos + c)
               /\ res'.newpos = res'.pos + c
               /\ inode'[res'.via.ino].i_size = nd.size]_vars

\* A short write of at least one byte that ends past the old end of a file
\* that was not empty.
C13_Witness ==
  /\ res.op = "write" /\ ~res.full /\ res.err = "OK"
  /\ res.ret >= 1 /\ res.ret < res.len
  /\ res.osize > 0
  /\ res.pos + res.ret > res.osize
  /\ node[res.n].size = res.pos + res.ret


\* ---- C14
\* C14: while mounted, no live directory has two children with the same stored
\* name.
C14_UniqueNames ==
  mounted =>
    \A p \in NodeIds :
      (node[p].st = "live" /\ node[p].is_dir) =>
        \A name \in NamesWide : Cardinality(NamedIn(p, name)) <= 1


\* ---- C15
\* C15: every live file node that owns its data has 0 <= size <= capacity, the
\* capacity being the length of its buffer and the buffer absent exactly when
\* the capacity is 0; every live directory node and every live alias node has
\* no buffer and size = capacity = 0.
C15_BufferBounds ==
  \A n \in NodeIds :
    node[n].st = "live" =>
      IF node[n].is_dir \/ node[n].link_target # NULL
        THEN node[n].data = <<>> /\ node[n].size = 0 /\ node[n].capacity = 0
        ELSE /\ 0 <= node[n].size
             /\ node[n].size <= node[n].capacity
             /\ node[n].capacity = Len(node[n].data)
             /\ (node[n].data = <<>>) <=> (node[n].capacity = 0)

\* A write through the inode of an alias has failed for want of memory on a
\* file whose buffer is larger than the bytes it holds.
C15_Witness ==
  /\ res.op = "write" /\ res.err = "ENOMEM"
  /\ node[inode[res.via.ino].i_private].link_target = res.n
  /\ node[res.n].size > 0
  /\ node[res.n].size < node[res.n].capacity


\* ---- C16
RECURSIVE C16_Pow2(_)
C16_Pow2(k) == IF k = 0 THEN 1 ELSE 2 * C16_Pow2(k - 1)

\* The smallest b * 2^k that is at least `need`.
C16_Fit(b, need) ==
  LET fits == {b * C16_Pow2(k) : k \in 0..SIZE_MAX}
  IN CHOOSE c \in fits : c >= need /\ \A e \in fits : e >= need => c <= e

\* C16: the capacity of a node is 0 or a page times a power of two; a step
\* changes it only by a truncate (to 0) or by a write whose pos + len exceeds
\* it, and then to the smallest max(capacity, page) * 2^k that holds pos + len;
\* a write whose pos + len is within range but needs a capacity beyond SIZE_MAX
\* fails with EFBIG, and a write that fails with EFBIG leaves every node as it
\* was.
C16_CapacityGrowth ==
  [][/\ \A n \in NodeIds :
          /\ \/ node'[n].capacity = 0
             \/ \E j \in 0..SIZE_MAX : node'[n].capacity = PAGE_SIZE * C16_Pow2(j)
          /\ node'[n].capacity # node[n].capacity =>
               \/ res'.op = "trunc" /\ res'.n = n /\ node'[n].capacity = 0
               \/ /\ res'.op = "write" /\ res'.n = n
                  /\ res'.pos + res'.len > node[n].capacity
                  /\ node'[n].capacity =
                       C16_Fit(Max(node[n].capacity, PAGE_SIZE), res'.pos + res'.len)
     /\ (res'.op = "write" /\ res'.err = "EFBIG") => node' = node
     /\ (/\ res'.op = "write" /\ res'.pos >= 0 /\ res'.len > 0
         /\ res'.pos + res'.len <= SIZE_MAX
         /\ res'.pos + res'.len > node[res'.n].capacity
         /\ C16_Fit(Max(node[res'.n].capacity, PAGE_SIZE), res'.pos + res'.len)
              > SIZE_MAX) =>
          res'.err = "EFBIG"]_vars

\* A write into a file that held bytes has left a buffer two doublings above a
\* page and larger than the end of the write.
C16_Witness ==
  /\ res.op = "write" /\ res.err = "OK" /\ res.osize > 0
  /\ node[res.n].capacity = 4 * PAGE_SIZE
  /\ res.pos + res.len < node[res.n].capacity
  /\ res.pos + res.len > 2 * PAGE_SIZE


\* ---- C17
\* C17: while mounted, a live node is in the chain of a live directory exactly
\* when its parent field is that directory; a live node in some chain has a
\* parent; and the node that a successful unlink or rmdir has just taken out
\* has parent and next_sibling cleared and is in no chain.
C17_TreeLinkage ==
  mounted =>
    /\ \A n, p \in NodeIds :
         (/\ node[n].st = "live" /\ node[p].st = "live" /\ node[p].is_dir) =>
           ((n \in Range(Children(p))) <=> (node[n].parent = p))
    /\ \A n \in NodeIds :
         (node[n].st = "live" /\ Attached(n)) => node[n].parent # NULL
    /\ (res.op \in {"unlink", "rmdir"} /\ res.err = "OK") =>
         /\ node[res.n].parent = NULL
         /\ node[res.n].next_sibling = NULL
         /\ \A p \in NodeIds :
              node[p].st = "live" => res.n \notin Range(Children(p))

\* A file has been unlinked from behind a newer one in the root's chain, which
\* stays as the only child.
C17_Witness ==
  /\ res.op = "unlink" /\ res.err = "OK"
  /\ Len(Children(inode[res.dir].i_private)) = 1
  /\ node[Children(inode[res.dir].i_private)[1]].ino > node[res.n].ino
  /\ node[Children(inode[res.dir].i_private)[1]].parent = inode[res.dir].i_private


\* ---- C18
\* C18: while mounted, every live alias node that is in a directory's chain has
\* a data owner whose node record has not been released.
C18_NoDanglingAlias ==
  mounted =>
    \A n \in NodeIds :
      (node[n].st = "live" /\ node[n].link_target # NULL /\ Attached(n)) =>
        node[DataOwner(n)].st = "live"


\* ---- C19
\* C19: a successful unlink of a name detaches the node stored under that name
\* and no other, so that afterwards the directory holds no child of that name
\* and a lookup of it finds nothing.
C19_UnlinkNamed ==
  [][(res'.op = "unlink" /\ res'.err = "OK") =>
       /\ node[res'.n].name = res'.name
       /\ \A c \in NodeIds :
            (node'[c].st = "live" /\ node'[c].parent = res'.dir) =>
              node'[c].name # res'.name]_vars


\* ---- C20
\* C20: a write that fails (EINVAL, EFBIG, ENOMEM or EFAULT) leaves the size of
\* the data node and its bytes below the size as they were, wherever the write
\* position lies.
C20_FailedWriteUnchanged ==
  [][(res'.op = "write" /\ res'.err # "OK") =>
       Content(node'[res'.n]) = Content(node[res'.n])]_vars


\* ---- C21
\* The children at indices n - 2, ..., k - 1 of chain q, for a cursor n >= 2.
C21_From(q, n) ==
  IF n - 2 >= Len(q) THEN <<>> ELSE SubSeq(q, n - 1, Len(q))

\* C21: a vtfs_iterate call entered with a cursor n >= 2, whatever its size,
\* emits the children at indices n - 2, ..., k - 1 in order (a prefix of them
\* when the consumer refuses an entry) and advances the cursor by one for each;
\* entered with n >= k + 2 it emits nothing and leaves the cursor as it was.
C21_CursorAddressing ==
  [][(res'.op = "iterate" /\ ctx.open /\ ctx.pos >= 2) =>
       LET q == Children(inode[ctx.ino].i_private)
           want == ChildEntries(C21_From(q, ctx.pos))
           new == SubSeq(ctx'.emitted, Len(ctx.emitted) + 1, Len(ctx'.emitted))
       IN /\ IsPrefix(new, want)
          /\ ctx'.done => new = want
          /\ ctx'.pos = ctx.pos + Len(new)
          /\ ctx.pos >= Len(q) + 2 => (new = <<>> /\ ctx'.pos = ctx.pos)]_vars

====
